---------------------------- MODULE Spec2Model ----------------------------
(***************************************************************************)
(* The foods router of app/routes/food_routes.js: five Express routes      *)
(* over the Mongoose model Food.  A request is a chain of promise          *)
(* callbacks; between two store calls of one request, the callbacks of     *)
(* other requests may run.  One action below is one run-to-completion      *)
(* stretch of JavaScript: everything a request does synchronously (and in  *)
(* the microtasks that follow) between two completions of store calls.     *)
(***************************************************************************)
EXTENDS Integers, Sequences, FiniteSets

\* ------------------------------------------------------------- bounds
MaxReq == 2          \* requests received in one behaviour
MaxId  == 2          \* documents the store ever creates

Req == 1..MaxReq
Ids == 1..MaxId

Users   == {"u1", "u2"}          \* identities a valid bearer token resolves to
NoToken == "no-token"            \* a missing or invalid bearer token
Tokens  == Users \cup {NoToken}

Absent     == "<absent>"         \* the key is not in the object
TitleVals  == {"", "a", "b"}
TextVals   == {"ok"}

\* A request body { food: { title, text, owner } }; food = FALSE is a body
\* without the `food` key.
NoBody == [food |-> FALSE, title |-> Absent, text |-> Absent, owner |-> Absent]
Payloads ==
    {NoBody} \cup
    [food : {TRUE}, title : TitleVals \cup {Absent}, text : TextVals \cup {Absent},
     owner : Users \cup {Absent}]

\* A Food document; exists = FALSE is "no document" (null).
NoDoc == [exists |-> FALSE, owner |-> Absent, title |-> Absent, text |-> Absent]

NoReq == [kind |-> "", token |-> NoToken, id |-> 0, after204 |-> FALSE]

\* ------------------------------------------------------------- state
VARIABLES
    store,      \* the foods collection: id -> document, NoDoc where there is none
    nextId,     \* the id the store gives to the next created document
    creator,    \* id -> the user whose POST created the document, Absent before
    pc,         \* per request: idle, create, find, update, deleteOne, done
    req,        \* per request: route, bearer token, :id, and whether a DELETE of
                \* the same id had already been answered 204 when it arrived
    payload,    \* per request: the body as received, while the request is live
    body,       \* per request: req.body.food as the middleware left it
    lookup,     \* per request: how findById / find settled: none, doc, null, error
    outcomes    \* per request: the responses sent and the errors passed to next

ids == <<nextId, creator>>

vars == <<store, nextId, creator, pc, req, payload, body, lookup, outcomes>>

\* ------------------------------------------------------ terminal events
Res(status, id, owner) ==
    [via |-> "res", status |-> status, err |-> "", id |-> id, owner |-> owner]
Fwd(err) ==
    [via |-> "next", status |-> 0, err |-> err, id |-> 0, owner |-> Absent]

\* The centralized error responder: error kind -> status code.
errorStatus(err) ==
    CASE err = "NotFound"   -> 404
      [] err = "Forbidden"  -> 403
      [] err = "Validation" -> 422
      [] OTHER              -> 500

StatusOf(e) == IF e.via = "res" THEN e.status ELSE errorStatus(e.err)

\* ------------------------------------------------------------- helpers
\* passport.authenticate('bearer'): the token resolves to a user or it does not.
Authenticated(token) == token \in Users

\* DELETE /foods/:id registered without requireToken.
ProtectedNoDelete(kind) == kind \in {"POST", "PATCH"}

\* Which routes list requireToken before their handler.
Protected(kind) == kind \in {"POST", "PATCH", "DELETE"}

\* lib/remove_blank_fields: every key whose value is '' is deleted.
removeBlanks(b) ==
    [b EXCEPT !.title = IF @ = "" THEN Absent ELSE @,
              !.text  = IF @ = "" THEN Absent ELSE @,
              !.owner = IF @ = "" THEN Absent ELSE @]

\* lib/custom_errors handle404: throws DocumentNotFoundError on null.
handle404(doc) == IF doc.exists THEN "ok" ELSE "NotFound"

\* lib/custom_errors requireOwnership: throws unless the user owns the document.
requireOwnership(user, doc) == IF doc.owner = user THEN "ok" ELSE "Forbidden"

\* The owner set only when the client sent none.
SetOwnerIfMissing(b, user) == IF b.owner = Absent THEN [b EXCEPT !.owner = user] ELSE b

\* req.body.food.owner = req.user.id
SetOwner(b, user) == [b EXCEPT !.owner = user]

\* The handler without its `delete req.body.food.owner`.
KeepOwner(b) == b

\* delete req.body.food.owner
DeleteOwner(b) == [b EXCEPT !.owner = Absent]

\* PATCH registered without the removeBlanks middleware.
UpdateBodyWithBlanks(p) == [p EXCEPT !.owner = Absent]

\* What the update handler hands to updateOne: removeBlanks ran as middleware,
\* then the handler deleted `owner`.
UpdateBody(p) == DeleteOwner(removeBlanks(p))

\* Food.create(body): the document the store persists.
NewDoc(b) == [exists |-> TRUE, owner |-> b.owner, title |-> b.title, text |-> b.text]

\* food.updateOne(body): the keys of body are set, the others are left alone.
Merge(doc, b) ==
    [doc EXCEPT !.title = IF b.title = Absent THEN @ ELSE b.title,
                !.text  = IF b.text  = Absent THEN @ ELSE b.text,
                !.owner = IF b.owner = Absent THEN @ ELSE b.owner]

\* The chain without its call of requireOwnership.
GuardNoOwnership(user, doc) == handle404(doc)

\* The chain with requireOwnership called before handle404.
GuardOwnershipFirst(user, doc) ==
    IF requireOwnership(user, doc) # "ok" THEN requireOwnership(user, doc)
    ELSE handle404(doc)

\* .then(handle404).then(food => { requireOwnership(req, food) ... }):
\* the first check that throws decides.
Guard(user, doc) ==
    IF handle404(doc) # "ok" THEN handle404(doc) ELSE requireOwnership(user, doc)

\* The chain without handle404: null.toObject() throws a TypeError.
ShowResultNo404(id, doc) ==
    IF doc.exists THEN Res(200, id, doc.owner) ELSE Fwd("Internal")

\* .then(handle404).then(food => res.status(200).json({food: food.toObject()}))
ShowResult(id, doc) ==
    IF handle404(doc) # "ok" THEN Fwd(handle404(doc)) ELSE Res(200, id, doc.owner)

InFlight(r) == pc[r] \notin {"idle", "done"}

\* Requests take the slots in order.
Fresh(r) ==
    /\ pc[r] = "idle"
    /\ \A q \in 1..(r - 1) : pc[q] # "idle"

\* The request ends with event e; its request object is released.
Finish(r, e) ==
    /\ pc' = [pc EXCEPT ![r] = "done"]
    /\ outcomes' = [outcomes EXCEPT ![r] = Append(@, e)]
    /\ payload' = [payload EXCEPT ![r] = NoBody]
    /\ body' = [body EXCEPT ![r] = NoBody]

Receive(r, kind, token, id) ==
    req' = [req EXCEPT ![r] = [kind |-> kind, token |-> token, id |-> id,
                after204 |-> /\ kind = "DELETE"
                             /\ \E q \in Req :
                                  /\ req[q].kind = "DELETE" /\ req[q].id = id
                                  /\ \E i \in 1..Len(outcomes[q]) :
                                       StatusOf(outcomes[q][i]) = 204]]

\* ------------------------------------------------------------- Init
\* A document an earlier POST {food: {title: "a"}} of user u left in the
\* collection.
Docs(u) == {[exists |-> TRUE, owner |-> u, title |-> "a", text |-> Absent]}

\* The server starts on a collection that is empty, or that holds a document an
\* earlier POST created, or from which that document has been deleted again.
Init ==
    /\ \/ /\ nextId = 1
          /\ creator = [i \in Ids |-> Absent]
          /\ store = [i \in Ids |-> NoDoc]
       \/ /\ nextId = 2
          /\ \E u \in Users :
               /\ creator = [i \in Ids |-> IF i = 1 THEN u ELSE Absent]
               /\ \E d \in Docs(u) \cup {NoDoc} :
                    store = [i \in Ids |-> IF i = 1 THEN d ELSE NoDoc]
    /\ pc = [r \in Req |-> "idle"]
    /\ req = [r \in Req |-> NoReq]
    /\ payload = [r \in Req |-> NoBody]
    /\ body = [r \in Req |-> NoBody]
    /\ lookup = [r \in Req |-> "none"]
    /\ outcomes = [r \in Req |-> <<>>]

\* ------------------------------------------------------------- INDEX
\* GET /foods: Food.find().populate('owner') is issued.
Index(r) ==
    /\ Fresh(r)
    /\ Receive(r, "INDEX", NoToken, 0)
    /\ pc' = [pc EXCEPT ![r] = "find"]
    /\ UNCHANGED <<store, ids, payload, body, lookup, outcomes>>

IndexFound(r) ==
    /\ pc[r] = "find" /\ req[r].kind = "INDEX"
    /\ lookup' = [lookup EXCEPT ![r] = "doc"]
    /\ Finish(r, Res(200, 0, Absent))
    /\ UNCHANGED <<store, ids, req>>

\* ------------------------------------------------------------- SHOW
\* GET /foods/:id: Food.findById(id).populate('owner') is issued.
Show(r, id) ==
    /\ Fresh(r)
    /\ Receive(r, "SHOW", NoToken, id)
    /\ pc' = [pc EXCEPT ![r] = "find"]
    /\ UNCHANGED <<store, ids, payload, body, lookup, outcomes>>

ShowFound(r) ==
    /\ pc[r] = "find" /\ req[r].kind = "SHOW"
    /\ lookup' = [lookup EXCEPT ![r] = IF store[req[r].id].exists THEN "doc" ELSE "null"]
    /\ Finish(r, ShowResult(req[r].id, store[req[r].id]))
    /\ UNCHANGED <<store, ids, req>>

\* A find / findById that rejects (any route): .catch(next).
FindFailed(r) ==
    /\ pc[r] = "find"
    /\ lookup' = [lookup EXCEPT ![r] = "error"]
    /\ Finish(r, Fwd("Internal"))
    /\ UNCHANGED <<store, ids, req>>

\* ------------------------------------------------------------- CREATE
\* POST /foods: requireToken, then the handler sets the owner and issues
\* Food.create.  A body without `food` makes the handler throw.
Create(r, token, p) ==
    /\ Fresh(r)
    /\ nextId + Cardinality({q \in Req : pc[q] = "create"}) <= MaxId
    /\ Receive(r, "POST", token, 0)
    /\ IF Protected("POST") /\ ~Authenticated(token)
         THEN Finish(r, Res(401, 0, Absent))
         ELSE IF ~p.food
           THEN Finish(r, Fwd("Internal"))
           ELSE /\ pc' = [pc EXCEPT ![r] = "create"]
                /\ payload' = [payload EXCEPT ![r] = p]
                /\ body' = [body EXCEPT ![r] = SetOwner(p, token)]
                /\ UNCHANGED outcomes
    /\ UNCHANGED <<store, ids, lookup>>

\* Food.create resolved: 201 with the new document.
CreateDone(r) ==
    /\ pc[r] = "create"
    /\ nextId <= MaxId
    /\ store' = [store EXCEPT ![nextId] = NewDoc(body[r])]
    /\ nextId' = nextId + 1
    /\ creator' = [creator EXCEPT ![nextId] = req[r].token]
    /\ Finish(r, Res(201, nextId, NewDoc(body[r]).owner))
    /\ UNCHANGED <<req, lookup>>

\* Food.create rejected (validation, or the store failed): .catch(next).
CreateFailed(r, err) ==
    /\ pc[r] = "create"
    /\ Finish(r, Fwd(err))
    /\ UNCHANGED <<store, ids, req, lookup>>

\* ------------------------------------------------------------- UPDATE
\* PATCH /foods/:id: requireToken, removeBlanks, then the handler deletes
\* `owner` from the body and issues Food.findById.
Update(r, token, id, p) ==
    /\ Fresh(r)
    /\ Receive(r, "PATCH", token, id)
    /\ IF Protected("PATCH") /\ ~Authenticated(token)
         THEN Finish(r, Res(401, 0, Absent))
         ELSE IF ~p.food
           THEN Finish(r, Fwd("Internal"))
           ELSE /\ pc' = [pc EXCEPT ![r] = "find"]
                /\ payload' = [payload EXCEPT ![r] = p]
                /\ body' = [body EXCEPT ![r] = UpdateBody(p)]
                /\ UNCHANGED outcomes
    /\ UNCHANGED <<store, ids, lookup>>

\* findById resolved: handle404, requireOwnership, then food.updateOne is
\* issued and the chain waits for it.
UpdateFound(r) ==
    /\ pc[r] = "find" /\ req[r].kind = "PATCH"
    /\ lookup' = [lookup EXCEPT ![r] = IF store[req[r].id].exists THEN "doc" ELSE "null"]
    /\ IF Guard(req[r].token, store[req[r].id]) # "ok"
         THEN Finish(r, Fwd(Guard(req[r].token, store[req[r].id])))
         ELSE /\ pc' = [pc EXCEPT ![r] = "update"]
              /\ UNCHANGED <<payload, body, outcomes>>
    /\ UNCHANGED <<store, ids, req>>

\* food.updateOne resolved: the document with this _id, if the collection
\* still has it, gets the keys of the body; 204 either way.
UpdateDone(r) ==
    /\ pc[r] = "update"
    /\ store' = [store EXCEPT ![req[r].id] = IF @.exists THEN Merge(@, body[r]) ELSE @]
    /\ Finish(r, Res(204, 0, Absent))
    /\ UNCHANGED <<ids, req, lookup>>

\* food.updateOne rejected: .catch(next).
UpdateFailed(r) ==
    /\ pc[r] = "update"
    /\ Finish(r, Fwd("Internal"))
    /\ UNCHANGED <<store, ids, req, lookup>>

\* ------------------------------------------------------------- DESTROY
\* DELETE /foods/:id: requireToken, then Food.findById is issued.
Destroy(r, token, id) ==
    /\ Fresh(r)
    /\ Receive(r, "DELETE", token, id)
    /\ IF Protected("DELETE") /\ ~Authenticated(token)
         THEN Finish(r, Res(401, 0, Absent))
         ELSE /\ pc' = [pc EXCEPT ![r] = "find"]
              /\ UNCHANGED <<payload, body, outcomes>>
    /\ UNCHANGED <<store, ids, lookup>>

\* findById resolved: handle404, requireOwnership, then food.deleteOne() is
\* called and its promise dropped (the callback returns undefined), so the
\* next .then sends 204 at once, with the delete still under way.
DestroyFound(r) ==
    /\ pc[r] = "find" /\ req[r].kind = "DELETE"
    /\ lookup' = [lookup EXCEPT ![r] = IF store[req[r].id].exists THEN "doc" ELSE "null"]
    /\ IF Guard(req[r].token, store[req[r].id]) # "ok"
         THEN Finish(r, Fwd(Guard(req[r].token, store[req[r].id])))
         ELSE /\ pc' = [pc EXCEPT ![r] = "deleteOne"]
              /\ outcomes' = [outcomes EXCEPT ![r] = Append(@, Res(204, 0, Absent))]
              /\ UNCHANGED <<payload, body>>
    /\ UNCHANGED <<store, ids, req>>

\* food.deleteOne().catch(next): the rejection reaches next after the 204.
ForwardedRejection(out) == Append(out, Fwd("Internal"))

\* What the router hears of a rejected deleteOne: nothing, nobody holds the
\* promise.
DroppedRejection(out) == out

\* The dropped deleteOne resolved: the document is gone.
DeleteOneDone(r) ==
    /\ pc[r] = "deleteOne"
    /\ store' = [store EXCEPT ![req[r].id] = NoDoc]
    /\ pc' = [pc EXCEPT ![r] = "done"]
    /\ UNCHANGED <<ids, req, payload, body, lookup, outcomes>>

\* The dropped deleteOne rejected, or never ran: the document stays.
DeleteOneFailed(r) ==
    /\ pc[r] = "deleteOne"
    /\ pc' = [pc EXCEPT ![r] = "done"]
    /\ outcomes' = [outcomes EXCEPT ![r] = DroppedRejection(@)]
    /\ UNCHANGED <<store, ids, req, payload, body, lookup>>

\* ------------------------------------------------------------- Next
\* The ids a client asks for: those the store has given out, and one it has not.
Known == {i \in Ids : i <= nextId}

\* The bodies a client with token t sends: an `owner` it supplies names
\* somebody else.
Sent(t) == {p \in Payloads : p.owner # t}

Next ==
    \E r \in Req :
        \/ Index(r)
        \/ IndexFound(r)
        \/ \E i \in Known : Show(r, i)
        \/ ShowFound(r)
        \/ FindFailed(r)
        \/ \E t \in Tokens : \E p \in Sent(t) : Create(r, t, p)
        \/ CreateDone(r)
        \/ \E e \in {"Validation", "Internal"} : CreateFailed(r, e)
        \/ \E t \in Tokens, i \in Known : \E p \in Sent(t) : Update(r, t, i, p)
        \/ UpdateFound(r)
        \/ UpdateDone(r)
        \/ UpdateFailed(r)
        \/ \E t \in Tokens, i \in Known : Destroy(r, t, i)
        \/ DestroyFound(r)
        \/ DeleteOneDone(r)
        \/ DeleteOneFailed(r)

Spec == Init /\ [][Next]_vars

\* ------------------------------------------------------------- claims
Mutating == {"PATCH", "DELETE"}

\* The one terminal event of a request that has exactly one.
Only(r) == outcomes[r][1]

Answered(r, status) ==
    \E i \in 1..Len(outcomes[r]) : StatusOf(outcomes[r][i]) = status

\* C1: a PATCH or DELETE by an authenticated user on a stored record that
\* another user owns ends in an error passed to next (never a 204), and the
\* step that ends it leaves the collection as it was.
C1_NonOwnerRejected ==
    [][\A r \in Req :
         ( /\ pc[r] = "find" /\ pc'[r] # "find"
           /\ req[r].kind \in Mutating
           /\ store[req[r].id].exists
           /\ store[req[r].id].owner # req[r].token )
         => /\ store' = store
            /\ pc'[r] = "done"
            /\ Len(outcomes'[r]) = 1
            /\ outcomes'[r][1].via = "next"
            /\ StatusOf(outcomes'[r][1]) # 204]_vars

C1_Witness ==
    \E r \in Req :
        /\ pc[r] = "done" /\ req[r].kind \in Mutating
        /\ Authenticated(req[r].token)
        /\ store[req[r].id].exists
        /\ store[req[r].id].owner # req[r].token
        /\ outcomes[r] = <<Fwd("Forbidden")>>

\* C2: every stored food has one owner, a user, and it is the user whose POST
\* created it, whatever POST, PATCH and DELETE requests have run.
C2_OwnerIsCreator ==
    \A i \in Ids :
        store[i].exists => store[i].owner \in Users /\ store[i].owner = creator[i]

C2_Witness ==
    \E r \in Req :
        /\ req[r].kind = "PATCH" /\ pc[r] = "done"
        /\ outcomes[r] = <<Res(204, 0, Absent)>>
        /\ store[req[r].id].exists
        /\ store[req[r].id].owner = req[r].token

\* C3: a POST that succeeds answers 201, and the owner of the record it
\* persisted and the owner in the response both are the caller, whether or
\* not the body named an owner; a POST that fails persists nothing.
C3_CreateSetsOwner ==
    [][\A r \in Req :
         (pc[r] = "create" /\ pc'[r] = "done")
         => /\ Len(outcomes'[r]) = 1
            /\ LET e == outcomes'[r][1] IN
               IF e.via = "res"
                 THEN /\ e.status = 201
                      /\ e.owner = req[r].token
                      /\ e.id \in Ids
                      /\ ~store[e.id].exists
                      /\ store'[e.id].exists
                      /\ store'[e.id].owner = req[r].token
                 ELSE store' = store]_vars

C3_Witness ==
    \E r \in Req :
        /\ req[r].kind = "POST" /\ pc[r] = "done"
        /\ Len(outcomes[r]) = 1
        /\ Only(r).via = "res" /\ Only(r).status = 201
        /\ Only(r).owner = req[r].token
        /\ store[Only(r).id].owner = req[r].token

\* C4: a DELETE that arrives after a DELETE of the same id was answered 204 is
\* never answered 204.
C4_NoSecond204 ==
    \A r \in Req :
        (req[r].kind = "DELETE" /\ req[r].after204) => ~Answered(r, 204)

\* C5: a DELETE is answered 204 only once the store has deleted the record.
C5_204OnlyAfterDelete ==
    \A r \in Req :
        (req[r].kind = "DELETE" /\ Answered(r, 204)) => ~store[req[r].id].exists

\* What a PATCH with payload p makes of field value old: kept when the payload
\* has no such key or has it blank, else the payload's value.
Patched(old, new) == IF new \in {Absent, ""} THEN old ELSE new

\* C6 as claimed: every PATCH answered 204 has set title and text to the
\* payload's non-empty values and kept the stored value where the payload's
\* is blank or missing.
C6_PatchSetsFields ==
    [][\A r \in Req :
         (pc[r] = "update" /\ pc'[r] = "done" /\ Answered(r, 204)')
         => /\ store'[req[r].id].title = Patched(store[req[r].id].title, payload[r].title)
            /\ store'[req[r].id].text = Patched(store[req[r].id].text, payload[r].text)]_vars

\* C6 as amended: the same, for a record the collection still holds when
\* updateOne runs; when it has been deleted meanwhile the PATCH is answered
\* 204 all the same and nothing is stored.
C6_PatchSetsFieldsIfStored ==
    [][\A r \in Req :
         (pc[r] = "update" /\ pc'[r] = "done" /\ Answered(r, 204)')
         => IF store[req[r].id].exists
              THEN /\ store'[req[r].id].title =
                        Patched(store[req[r].id].title, payload[r].title)
                   /\ store'[req[r].id].text =
                        Patched(store[req[r].id].text, payload[r].text)
                   /\ store'[req[r].id].owner = store[req[r].id].owner
                   /\ \A i \in Ids \ {req[r].id} : store'[i] = store[i]
              ELSE store' = store]_vars

C6_Witness ==
    \E r \in Req :
        /\ req[r].kind = "PATCH" /\ pc[r] = "done"
        /\ outcomes[r] = <<Res(204, 0, Absent)>>
        /\ \A q \in Req \ {r} : pc[q] = "idle"
        /\ store[req[r].id].exists
        /\ store[req[r].id].title = "a"
        /\ store[req[r].id].text = "ok"

\* C7: GET /foods/:id, sent without a token, answers 200 with the requested
\* id in the body when the id has a stored food and 404 when it has none.
C7_ShowFoundOr404 ==
    [][\A r \in Req :
         ( /\ req[r].kind = "SHOW" /\ pc[r] = "find" /\ pc'[r] = "done"
           /\ lookup'[r] # "error" )
         => /\ ~Authenticated(req[r].token)
            /\ Len(outcomes'[r]) = 1
            /\ LET e == outcomes'[r][1] IN
               IF store[req[r].id].exists
                 THEN e.via = "res" /\ e.status = 200 /\ e.id = req[r].id
                 ELSE StatusOf(e) = 404]_vars

C7_Witness ==
    /\ \E r \in Req :
         /\ req[r].kind = "SHOW" /\ req[r].token = NoToken
         /\ outcomes[r] = <<Res(200, req[r].id, store[req[r].id].owner)>>
    /\ \E r \in Req :
         /\ req[r].kind = "SHOW" /\ lookup[r] = "null"
         /\ outcomes[r] = <<Fwd("NotFound")>>

\* C8: a POST, PATCH or DELETE with a missing or invalid token is answered
\* 401 on arrival: no handler or sanitizer runs, no store call is made and the
\* collection is unchanged.
C8_UnauthorizedStopsAtGate ==
    [][\A r \in Req :
         ( /\ pc[r] = "idle" /\ pc'[r] # "idle"
           /\ req'[r].kind \in {"POST", "PATCH", "DELETE"}
           /\ ~Authenticated(req'[r].token) )
         => /\ pc'[r] = "done"
            /\ outcomes'[r] = <<Res(401, 0, Absent)>>
            /\ body'[r] = NoBody
            /\ lookup'[r] = "none"
            /\ store' = store]_vars

C8_Witness ==
    \E r \in Req :
        /\ req[r].kind = "DELETE" /\ req[r].token = NoToken
        /\ store[req[r].id].exists
        /\ pc[r] = "done" /\ outcomes[r] = <<Res(401, 0, Absent)>>

\* C9: a PATCH or DELETE of an id with no stored record ends NotFound for
\* every authenticated caller, not Forbidden and not 204, and leaves the
\* collection as it was.
C9_NotFoundBeforeOwnership ==
    [][\A r \in Req :
         ( /\ pc[r] = "find" /\ pc'[r] # "find"
           /\ req[r].kind \in Mutating
           /\ lookup'[r] # "error"
           /\ ~store[req[r].id].exists )
         => /\ pc'[r] = "done"
            /\ outcomes'[r] = <<Fwd("NotFound")>>
            /\ store' = store]_vars

C9_Witness ==
    \E r \in Req :
        /\ req[r].kind \in Mutating /\ pc[r] = "done"
        /\ creator[req[r].id] \in Users /\ creator[req[r].id] # req[r].token
        /\ lookup[r] = "null"
        /\ outcomes[r] = <<Fwd("NotFound")>>

\* The steps that end a store call of request r.
Settle(r) ==
    \/ IndexFound(r) \/ ShowFound(r) \/ FindFailed(r)
    \/ CreateDone(r) \/ \E e \in {"Validation", "Internal"} : CreateFailed(r, e)
    \/ UpdateFound(r) \/ UpdateDone(r) \/ UpdateFailed(r)
    \/ DestroyFound(r) \/ DeleteOneDone(r) \/ DeleteOneFailed(r)

\* C10: a request never has more than one terminal event (a response sent or
\* an error passed to next); it has none while its chain waits for a store
\* call, and then the chain can go on; it has exactly one once it has ended.
C10_OneOutcome ==
    \A r \in Req :
        /\ Len(outcomes[r]) <= 1
        /\ pc[r] \in {"done", "deleteOne"} => Len(outcomes[r]) = 1
        /\ pc[r] \in {"idle", "find", "create", "update"} => Len(outcomes[r]) = 0
        /\ InFlight(r) => ENABLED Settle(r)

C10_Witness ==
    \E r, q \in Req :
        /\ r # q /\ pc[r] = "done" /\ pc[q] = "done"
        /\ req[r].kind = "PATCH" /\ req[q].kind = "DELETE" /\ req[r].id = req[q].id
        /\ outcomes[r] = <<Res(204, 0, Absent)>>
        /\ outcomes[q] = <<Res(204, 0, Absent)>>

====
